---- MODULE Spec2Model ----
(***************************************************************************)
(* The preprocessor of pagliascii (src/src/source.rs): Include::next_line, *)
(* Preprocessor::new, Preprocessor::amalgamate and the directive parser,   *)
(* and the document parser (src/src/parser.rs, src/src/parser/nom_ext.rs). *)
(*                                                                         *)
(* A Rust string is modelled as a sequence of one-character strings.  All  *)
(* characters used are ASCII, so a byte offset into a string is the number *)
(* of characters before it, and `processed` keeps the code's byte values.  *)
(***************************************************************************)
EXTENDS Integers, Sequences, FiniteSets, TLC

VARIABLES
    source,             \* the root source handed to Preprocessor::new
    attribute_map,      \* Preprocessor.attribute_map
    include_cb,         \* the include callback: what it answers for each target
    amalgamated,        \* Preprocessor.amalgamated
    include_stack,      \* Preprocessor.include_stack: Seq of Include
    conditional_stack,  \* Preprocessor.conditional_stack: Seq of CondDirective
    skipping,           \* Preprocessor.skipping
    line,               \* the local `line` of the last loop iteration
    arm,                \* the branch the last loop iteration of amalgamate took
    cb_calls,           \* the targets include_cb has been invoked with, in order
    result,             \* what amalgamate returned: "Running" until it returns
    input,              \* the text of the span handed to a parser of parser.rs
    parsed              \* the parser that was applied and the PResult it returned

vars == <<source, attribute_map, include_cb, amalgamated, include_stack,
          conditional_stack, skipping, line, arm, cb_calls, result,
          input, parsed>>

----------------------------------------------------------------------------
(* Strings *)

NL == "\n"
CR == "\r"

Take(s, n) == SubSeq(s, 1, n)
Drop(s, n) == SubSeq(s, n + 1, Len(s))

\* str::starts_with / nom tag(t): t is a prefix of s
starts_with(s, t) == Len(s) >= Len(t) /\ Take(s, Len(t)) = t

\* nom take_till(|c| c == ch): the number of characters before the first ch
\* (the whole input when there is none)
take_till(s, ch) ==
    IF \E i \in 1..Len(s) : s[i] = ch
    THEN (CHOOSE i \in 1..Len(s) : s[i] = ch /\ \A j \in 1..(i - 1) : s[j] # ch) - 1
    ELSE Len(s)

\* str::split(ch): the parts between the occurrences of ch, empty parts kept
RECURSIVE split(_, _)
split(s, ch) ==
    LET n == take_till(s, ch)
    IN  IF n = Len(s) THEN <<s>> ELSE <<Take(s, n)>> \o split(Drop(s, n + 1), ch)

\* string_pop with a slip: nothing is removed
string_pop_keeps(s) == s

\* String::pop: drop the last character, if any
string_pop(s) == IF Len(s) = 0 THEN s ELSE Take(s, Len(s) - 1)

----------------------------------------------------------------------------
(* The directive tags of parse_pp_directive *)

TagInclude == <<"i", "n", "c", "l", "u", "d", "e", ":", ":">>
TagIfDef   == <<"i", "f", "d", "e", "f", ":", ":">>
TagIfNotDef == <<"i", "f", "n", "d", "e", "f", ":", ":">>
TagEndIf   == <<"e", "n", "d", "i", "f", ":", ":">>
TagIfEval  == <<"i", "f", "e", "v", "a", "l", ":", ":">>

----------------------------------------------------------------------------
(* AttributeMap: a HashMap from names to values; only contains() is read *)

contains(attributes, k) == k \in DOMAIN attributes

----------------------------------------------------------------------------
(* Include::next_line *)

\* next_line with a slip: a source is exhausted as soon as processed reaches
\* its end, so the empty line after a final "\n" is never read
next_line_no_final_empty_line(inc) ==
    IF inc.processed >= Len(inc.source)
    THEN [some |-> FALSE, include |-> inc, line |-> <<>>]
    ELSE LET rest == Drop(inc.source, inc.processed)
             l    == take_till(rest, NL)
             ln   == Take(rest, l)
         IN  [some    |-> TRUE,
              include |-> [inc EXCEPT !.processed = @ + l + 1],
              line    |-> IF l > 0 /\ ln[l] = CR THEN Take(ln, l - 1) ELSE ln]

\* None when processed is past the end (source.get(processed..) is None); a
\* source whose last character is "\n", and the empty source, thus yield one
\* final empty line before they are exhausted.
next_line(inc) ==
    IF inc.processed > Len(inc.source)
    THEN [some |-> FALSE, include |-> inc, line |-> <<>>]
    ELSE LET rest == Drop(inc.source, inc.processed)
             l    == take_till(rest, NL)
             ln   == Take(rest, l)
         IN  [some    |-> TRUE,
              include |-> [inc EXCEPT !.processed = @ + l + 1],
              line    |-> IF l > 0 /\ ln[l] = CR THEN Take(ln, l - 1) ELSE ln]

----------------------------------------------------------------------------
(* The directive grammar *)

\* attr_list: delimited(tag("["), take_till(']'), tag("]"))
attr_list(s) ==
    IF Len(s) >= 1 /\ s[1] = "[" /\ (\E i \in 2..Len(s) : s[i] = "]")
    THEN [ok |-> TRUE, val |-> Take(Drop(s, 1), take_till(Drop(s, 1), "]"))]
    ELSE [ok |-> FALSE, val |-> <<>>]

\* attr_list_ifdef: an empty list is None, anything else Some(list)
attr_list_ifdef(s) ==
    LET a == attr_list(s)
    IN  [ok |-> a.ok, some |-> a.ok /\ a.val # <<>>, val |-> a.val]

\* the closure `path`: preceded(tag(t), take_till1(|c| c == '['))
path(t, s) ==
    IF starts_with(s, t) /\ take_till(Drop(s, Len(t)), "[") >= 1
    THEN [ok |-> TRUE,
          val |-> Take(Drop(s, Len(t)), take_till(Drop(s, Len(t)), "[")),
          rest |-> Drop(s, Len(t) + take_till(Drop(s, Len(t)), "["))]
    ELSE [ok |-> FALSE, val |-> <<>>, rest |-> <<>>]

\* path_opt with a slip: it is `path`, so endif:: and ifeval:: need a target
path_opt_requires_target(t, s) == path(t, s)

\* the closure `path_opt`: preceded(tag(t), take_till(|c| c == '['))
path_opt(t, s) ==
    IF starts_with(s, t)
    THEN [ok |-> TRUE,
          val |-> Take(Drop(s, Len(t)), take_till(Drop(s, Len(t)), "[")),
          rest |-> Drop(s, Len(t) + take_till(Drop(s, Len(t)), "["))]
    ELSE [ok |-> FALSE, val |-> <<>>, rest |-> <<>>]

NoDirective == [kind |-> "None", targets |-> <<>>, some |-> FALSE, attrs |-> <<>>]

\* Preprocessor::parse_pp_directive: kind is the PreprocessorDirective variant
\* ("None" when the line is no directive), targets its target(s), attrs the
\* bracketed text, some whether an IfDef/IfNotDef carries inline: Some(attrs).
parse_pp_directive(ln) ==
    IF starts_with(ln, <<"[">>) THEN NoDirective
    ELSE LET inc == path(TagInclude, ln)
             ifd == path(TagIfDef, ln)
             ifn == path(TagIfNotDef, ln)
             end == path_opt(TagEndIf, ln)
             ife == path_opt(TagIfEval, ln)
         IN  IF inc.ok /\ attr_list(inc.rest).ok
             THEN [kind |-> "Include", targets |-> inc.val, some |-> FALSE,
                   attrs |-> attr_list(inc.rest).val]
             ELSE IF ifd.ok /\ attr_list_ifdef(ifd.rest).ok
             THEN [kind |-> "IfDef", targets |-> ifd.val,
                   some |-> attr_list_ifdef(ifd.rest).some,
                   attrs |-> attr_list_ifdef(ifd.rest).val]
             ELSE IF ifn.ok /\ attr_list_ifdef(ifn.rest).ok
             THEN [kind |-> "IfNotDef", targets |-> ifn.val,
                   some |-> attr_list_ifdef(ifn.rest).some,
                   attrs |-> attr_list_ifdef(ifn.rest).val]
             ELSE IF end.ok /\ attr_list(end.rest).ok
             THEN [kind |-> "EndIf", targets |-> end.val, some |-> FALSE,
                   attrs |-> attr_list(end.rest).val]
             ELSE IF ife.ok /\ attr_list(ife.rest).ok
             THEN [kind |-> "IfEval", targets |-> ife.val, some |-> FALSE,
                   attrs |-> attr_list(ife.rest).val]
             ELSE NoDirective

\* Preprocessor::parse_doc_attrib: a stub that returns None for every line
parse_doc_attrib(ln) == [some |-> FALSE]

\* check_targets_active with a slip: `+` decides whenever it occurs, `,` only otherwise
check_targets_active_plus_first(targets, attributes) ==
    IF \E i \in 1..Len(targets) : targets[i] = "+"
    THEN \A k \in 1..Len(split(targets, "+")) : contains(attributes, split(targets, "+")[k])
    ELSE IF \E i \in 1..Len(targets) : targets[i] = ","
    THEN \E k \in 1..Len(split(targets, ",")) : contains(attributes, split(targets, ",")[k])
    ELSE contains(attributes, targets)

\* Preprocessor::check_targets_active
check_targets_active(targets, attributes) ==
    IF \E i \in 1..Len(targets) : targets[i] \in {"+", ","}
    THEN LET c == targets[CHOOSE i \in 1..Len(targets) :
                        /\ targets[i] \in {"+", ","}
                        /\ \A j \in 1..(i - 1) : targets[j] \notin {"+", ","}]
             parts == split(targets, c)
         IN  IF c = "+"
             THEN \A k \in 1..Len(parts) : contains(attributes, parts[k])
             ELSE \E k \in 1..Len(parts) : contains(attributes, parts[k])
    ELSE contains(attributes, targets)

\* Preprocessor::push_line
push_line(amalg, ln) == amalg \o ln \o <<NL>>

----------------------------------------------------------------------------
(* The Preprocessor *)

max_include_depth == 64

Running == [kind |-> "Running", error |-> ""]
Ok == [kind |-> "Ok", error |-> ""]
MaxIncludeDepthReached == [kind |-> "MaxIncludeDepthReached", error |-> ""]
IncludeError(e) == [kind |-> "IncludeError", error |-> e]

Last(s) == s[Len(s)]
Front(s) == SubSeq(s, 1, Len(s) - 1)

\* the fields of the Preprocessor, with the loop's local state, as one record
Self ==
    [attribute_map |-> attribute_map, include_cb |-> include_cb,
     amalgamated |-> amalgamated, include_stack |-> include_stack,
     conditional_stack |-> conditional_stack, skipping |-> skipping,
     line |-> line, arm |-> arm, cb_calls |-> cb_calls, result |-> result]

\* Preprocessor::new
new(src, cb, attributes) ==
    [attribute_map |-> attributes, include_cb |-> cb,
     amalgamated |-> <<>>, include_stack |-> <<[source |-> src, processed |-> 0]>>,
     conditional_stack |-> <<>>, skipping |-> FALSE,
     line |-> <<>>, arm |-> "new", cb_calls |-> <<>>, result |-> Running]

\* (self.include_cb)(&self.attribute_map, target): the callback answers from a
\* table, Ok(source) or Err(e); a target it does not know is an error
call_include_cb(cb, attributes, target) ==
    IF target \in DOMAIN cb THEN cb[target] ELSE [ok |-> FALSE, val |-> "NotFound"]

\* arm_EndIf with a slip: every endif ends the suppression, whichever frame it pops
arm_EndIf_always_clears(pp) ==
    IF Len(pp.conditional_stack) > 0
    THEN [pp EXCEPT !.conditional_stack = Front(@), !.skipping = FALSE, !.arm = "EndIf"]
    ELSE [pp EXCEPT !.arm = "EndIf"]

\* the EndIf arm
arm_EndIf(pp) ==
    IF Len(pp.conditional_stack) > 0
    THEN [pp EXCEPT !.conditional_stack = Front(@),
                    !.skipping = IF Last(pp.conditional_stack).skipping THEN FALSE ELSE @,
                    !.arm = "EndIf"]
    ELSE [pp EXCEPT !.arm = "EndIf"]

\* arm_Include with a slip: an error of the callback is dropped and the loop goes on
arm_Include_ignores_error(pp, target, n_includes) ==
    IF n_includes >= max_include_depth
    THEN [pp EXCEPT !.result = MaxIncludeDepthReached, !.arm = "Include"]
    ELSE LET r == call_include_cb(pp.include_cb, pp.attribute_map, target)
             top == Last(pp.include_stack)
             stack == IF top.processed >= Len(top.source)
                      THEN Front(pp.include_stack) ELSE pp.include_stack
         IN  IF ~r.ok
             THEN [pp EXCEPT !.cb_calls = Append(@, target), !.arm = "Include"]
             ELSE [pp EXCEPT !.cb_calls = Append(@, target),
                             !.include_stack =
                                 Append(stack, [source |-> r.val, processed |-> 0]),
                             !.arm = "Include"]

\* arm_Include with a slip: the depth test is `>` instead of `>=`
arm_Include_off_by_one(pp, target, n_includes) ==
    IF n_includes > max_include_depth
    THEN [pp EXCEPT !.result = MaxIncludeDepthReached, !.arm = "Include"]
    ELSE LET r == call_include_cb(pp.include_cb, pp.attribute_map, target)
             top == Last(pp.include_stack)
             stack == IF top.processed >= Len(top.source)
                      THEN Front(pp.include_stack) ELSE pp.include_stack
         IN  IF ~r.ok
             THEN [pp EXCEPT !.cb_calls = Append(@, target),
                             !.result = IncludeError(r.val), !.arm = "Include"]
             ELSE [pp EXCEPT !.cb_calls = Append(@, target),
                             !.include_stack =
                                 Append(stack, [source |-> r.val, processed |-> 0]),
                             !.arm = "Include"]

\* the Include arm (taken only when not skipping); n_includes is the length
\* of the include stack when the iteration began
arm_Include(pp, target, n_includes) ==
    IF n_includes >= max_include_depth
    THEN [pp EXCEPT !.result = MaxIncludeDepthReached, !.arm = "Include"]
    ELSE LET r == call_include_cb(pp.include_cb, pp.attribute_map, target)
             top == Last(pp.include_stack)
             stack == IF top.processed >= Len(top.source)
                      THEN Front(pp.include_stack) ELSE pp.include_stack
         IN  IF ~r.ok
             THEN [pp EXCEPT !.cb_calls = Append(@, target),
                             !.result = IncludeError(r.val), !.arm = "Include"]
             ELSE [pp EXCEPT !.cb_calls = Append(@, target),
                             !.include_stack =
                                 Append(stack, [source |-> r.val, processed |-> 0]),
                             !.arm = "Include"]

\* arm_IfDef_inline with a slip: the inline text is emitted even while skipping
arm_IfDef_inline_ignores_skipping(pp, targets, inline) ==
    IF check_targets_active(targets, pp.attribute_map)
    THEN [pp EXCEPT !.amalgamated = push_line(@, inline), !.arm = "IfDefInline"]
    ELSE [pp EXCEPT !.arm = "IfDefInline"]

\* the arm IfDef { targets, inline: Some(line) }
arm_IfDef_inline(pp, targets, inline) ==
    IF ~pp.skipping /\ check_targets_active(targets, pp.attribute_map)
    THEN [pp EXCEPT !.amalgamated = push_line(@, inline), !.arm = "IfDefInline"]
    ELSE [pp EXCEPT !.arm = "IfDefInline"]

\* arm_IfDef_block with a slip: the frame is marked as skipping although an
\* outer block is skipping already
arm_IfDef_block_marks_nested(pp, targets) ==
    LET skip == ~check_targets_active(targets, pp.attribute_map)
    IN  [pp EXCEPT !.conditional_stack =
                       Append(@, [targets |-> targets, skipping |-> skip]),
                   !.skipping = @ \/ skip,
                   !.arm = "IfDefBlock"]

\* the arm IfDef { targets, inline: None }
arm_IfDef_block(pp, targets) ==
    LET skip == ~check_targets_active(targets, pp.attribute_map)
    IN  [pp EXCEPT !.conditional_stack =
                       Append(@, [targets |-> targets, skipping |-> ~pp.skipping /\ skip]),
                   !.skipping = @ \/ skip,
                   !.arm = "IfDefBlock"]

\* the arm IfNotDef { targets, inline: Some(line) }
arm_IfNotDef_inline(pp, targets, inline) ==
    IF ~pp.skipping /\ ~check_targets_active(targets, pp.attribute_map)
    THEN [pp EXCEPT !.amalgamated = push_line(@, inline), !.arm = "IfNotDefInline"]
    ELSE [pp EXCEPT !.arm = "IfNotDefInline"]

\* the arm IfNotDef { targets, inline: None }
arm_IfNotDef_block(pp, targets) ==
    LET skip == check_targets_active(targets, pp.attribute_map)
    IN  [pp EXCEPT !.conditional_stack =
                       Append(@, [targets |-> targets, skipping |-> ~pp.skipping /\ skip]),
                   !.skipping = @ \/ skip,
                   !.arm = "IfNotDefBlock"]

\* arm_other with a slip: the directive is taken for a conditional that fails
arm_other_starts_skipping(pp) ==
    [pp EXCEPT !.conditional_stack = Append(@, [targets |-> <<>>, skipping |-> ~pp.skipping]),
               !.skipping = TRUE,
               !.arm = "Other"]

\* the arm `_ => {}`: IfEval, and Include while skipping
arm_other(pp) == [pp EXCEPT !.arm = "Other"]

\* the final else: a line that is no directive
arm_plain(pp, ln) ==
    IF ~pp.skipping
    THEN [pp EXCEPT !.amalgamated = push_line(@, ln), !.arm = "Plain"]
    ELSE [pp EXCEPT !.arm = "Plain"]

\* the dispatch on the line read (lines 121-181)
dispatch(pp, ln, n_includes) ==
    LET d == parse_pp_directive(ln)
    IN  IF parse_doc_attrib(ln).some THEN [pp EXCEPT !.arm = "DocAttrib"]
        ELSE IF d.kind = "None" THEN arm_plain(pp, ln)
        ELSE IF d.kind = "EndIf" THEN arm_EndIf(pp)
        ELSE IF d.kind = "Include" /\ ~pp.skipping
             THEN arm_Include(pp, d.targets, n_includes)
        ELSE IF d.kind = "IfDef" /\ d.some THEN arm_IfDef_inline(pp, d.targets, d.attrs)
        ELSE IF d.kind = "IfDef" THEN arm_IfDef_block(pp, d.targets)
        ELSE IF d.kind = "IfNotDef" /\ d.some
             THEN arm_IfNotDef_inline(pp, d.targets, d.attrs)
        ELSE IF d.kind = "IfNotDef" THEN arm_IfNotDef_block(pp, d.targets)
        ELSE arm_other(pp)

\* one iteration of the loop of Preprocessor::amalgamate; the iteration that
\* finds the include stack empty leaves the loop, pops the last character of
\* amalgamated and returns Ok
amalgamate_step(pp) ==
    LET n_includes == Len(pp.include_stack)
    IN  IF n_includes = 0
        THEN [pp EXCEPT !.amalgamated = string_pop(@), !.result = Ok, !.arm = "Break"]
        ELSE LET nl == next_line(Last(pp.include_stack))
             IN  IF ~nl.some
                 THEN [pp EXCEPT !.include_stack = Front(@), !.arm = "Pop"]
                 ELSE dispatch([pp EXCEPT !.include_stack[n_includes] = nl.include,
                                          !.line = nl.line],
                               nl.line, n_includes)

\* Preprocessor::amalgamate as a function: the loop run to its return, for a
\* run that returns within fuel iterations (result stays Running otherwise)
RECURSIVE amalgamate(_, _)
amalgamate(pp, fuel) ==
    IF pp.result # Running \/ fuel = 0 THEN pp
    ELSE amalgamate(amalgamate_step(pp), fuel - 1)

\* DocumentSource::new: Preprocessor::new with the default attribute map,
\* amalgamate()?, then Ok(DocumentSource { amalgamated }); pp is the
\* preprocessor when amalgamate has returned
DocumentSource_new(pp) ==
    IF pp.result = Ok THEN [ok |-> TRUE, val |-> pp.amalgamated]
    ELSE [ok |-> FALSE, val |-> pp.result]

----------------------------------------------------------------------------
(* The inputs: root sources, attribute maps and callbacks *)

MaxCondLines == 4
MaxExprLines == 3
MaxOddLines == 2
MaxTargetLen == 3
MaxIncludeLines == 2
MaxCalls == 66

MaxRunSteps == 200

X == <<"x">>
Y == <<"y">>
Z == <<"z">>
Inl == <<"i">>
AttrA == <<"A">>
AttrB == <<"B">>
FileA == <<"a">>
FileB == <<"b">>

IncludeLine(t) == TagInclude \o t \o <<"[", "]">>
IfDefLine(t, b) == TagIfDef \o t \o <<"[">> \o b \o <<"]">>
IfNotDefLine(t, b) == TagIfNotDef \o t \o <<"[">> \o b \o <<"]">>
EndIfLine(t) == TagEndIf \o t \o <<"[", "]">>
IfEvalLine(e) == TagIfEval \o <<"[">> \o e \o <<"]">>

\* lines joined by "\n", no newline after the last one
RECURSIVE JoinLines(_)
JoinLines(ls) ==
    IF Len(ls) = 0 THEN <<>>
    ELSE IF Len(ls) = 1 THEN ls[1]
    ELSE ls[1] \o <<NL>> \o JoinLines(Tail(ls))

LineSeqs(pool, n) == UNION {[1..k -> pool] : k \in 0..n}

KeySets(keys) == {[k \in K |-> <<>>] : K \in SUBSET keys}
AttrMaps == KeySets({AttrA, AttrB})

CbOk(src) == [ok |-> TRUE, val |-> src]
CbErr(e) == [ok |-> FALSE, val |-> e]

\* a callback that no run is expected to reach
NoIncludeCb == FileA :> CbErr("Unexpected")

\* Block conditionals around plain lines.  "P" stands for a plain line; the
\* k-th line of a source, when plain, is the one-letter line PlainChars[k], so
\* that the plain lines of one source are pairwise distinct.
PlainChars == <<"p", "q", "r", "s", "t", "u", "v", "w", "x", "y">>
CondPool == {<<"P">>, IfDefLine(AttrA, <<>>), IfNotDefLine(AttrB, <<>>), EndIfLine(<<>>)}
CondLines(ls) == [k \in 1..Len(ls) |-> IF ls[k] = <<"P">> THEN <<PlainChars[k]>> ELSE ls[k]]

\* the fixture of test_ifdef_nested, with its attributes renamed, and variants
NestedSeqs ==
    LET P == <<"P">>
        dA == IfDefLine(AttrA, <<>>)
        dB == IfDefLine(AttrB, <<>>)
        nB == IfNotDefLine(AttrB, <<>>)
        e == EndIfLine(<<>>)
    IN  {<<dA, P, dB, P, e, P, e, <<>> >>,
         <<dA, P, nB, P, e, P, e, P>>,
         <<P, nB, dA, P, e, P, e, P>>,
         <<dA, dB, nB, P, e, P, e, P, e, P>>}

ExprPool ==
    {X, IfDefLine(AttrB, <<>>), EndIfLine(<<>>), IfEvalLine(<<"e">>),
     IfDefLine(AttrA, Inl), IfNotDefLine(AttrA, Inl)}

\* an ifeval/endif pair inside a conditional block, with plain lines in the
\* pair, after it and after the block
EvalNestedSeqs ==
    {<<IfDefLine(AttrB, <<>>), IfEvalLine(<<"e">>), X, EndIfLine(<<>>), Y, EndIfLine(<<>>), Z>>,
     <<IfNotDefLine(AttrA, <<>>), IfEvalLine(<<"e">>), EndIfLine(<<>>), Y, EndIfLine(<<>>)>>}

OddPool ==
    {X, <<>>, <<":", "s", ":">>, <<"[">> \o IncludeLine(FileA),
     TagIfDef \o <<"[", "]">>, TagInclude \o FileA, X \o <<CR>>,
     IfDefLine(AttrA, <<>>) \o <<CR>>, EndIfLine(AttrA), IfEvalLine(<<>>),
     IfDefLine(AttrA, TagEndIf \o <<"[">>)}

\* target expressions: every string over two names and the two operators
TargetExprs == UNION {[1..k -> {"A", "B", "+", ","}] : k \in 1..MaxTargetLen}

IncludePool == {X, IncludeLine(FileA), IncludeLine(FileB), IfDefLine(AttrA, <<>>)}

SrcChain == JoinLines(<<X, IncludeLine(FileB), Y, <<>> >>)
SrcTailNl == JoinLines(<<X, IncludeLine(FileB), <<>> >>)
SrcSelf == JoinLines(<<IncludeLine(FileA), Y>>)
SrcSelfTail == IncludeLine(FileA)
SrcCondOpen == JoinLines(<<IfDefLine(AttrB, <<>>), X>>)
SrcCondClose == JoinLines(<<EndIfLine(<<>>), Y>>)

Callbacks ==
    {FileA :> CbOk(Z),
     FileA :> CbOk(SrcChain) @@ FileB :> CbOk(Z),
     FileA :> CbOk(SrcTailNl) @@ FileB :> CbOk(Z \o <<NL>>),
     FileA :> CbOk(SrcSelf) @@ FileB :> CbErr("E1"),
     FileA :> CbOk(SrcSelfTail) @@ FileB :> CbOk(<<>>),
     FileA :> CbOk(SrcCondOpen) @@ FileB :> CbOk(SrcCondClose),
     FileA :> CbErr("E2") @@ FileB :> CbOk(Z)}

----------------------------------------------------------------------------
(* The state machine: Preprocessor::new, then amalgamate one iteration at a time *)

Update(n) ==
    /\ amalgamated' = n.amalgamated
    /\ include_stack' = n.include_stack
    /\ conditional_stack' = n.conditional_stack
    /\ skipping' = n.skipping
    /\ line' = n.line
    /\ arm' = n.arm
    /\ cb_calls' = n.cb_calls
    /\ result' = n.result
    /\ UNCHANGED <<source, attribute_map, include_cb, input, parsed>>

\* no parser of parser.rs has been applied
NotParsed == [parser |-> "none"]

InitWith(src, attributes, cb) ==
    LET pp == new(src, cb, attributes)
    IN  /\ source = src
        /\ attribute_map = pp.attribute_map
        /\ include_cb = pp.include_cb
        /\ amalgamated = pp.amalgamated
        /\ include_stack = pp.include_stack
        /\ conditional_stack = pp.conditional_stack
        /\ skipping = pp.skipping
        /\ line = pp.line
        /\ arm = pp.arm
        /\ cb_calls = pp.cb_calls
        /\ result = pp.result
        /\ input = <<>>
        /\ parsed = NotParsed

Init ==
    \/ \E ls \in LineSeqs(CondPool, MaxCondLines) \cup NestedSeqs, m \in AttrMaps :
           InitWith(JoinLines(CondLines(ls)), m, NoIncludeCb)
    \/ \E ls \in LineSeqs(ExprPool, MaxExprLines) \cup EvalNestedSeqs, m \in AttrMaps :
           InitWith(JoinLines(ls), m, NoIncludeCb)
    \/ \E ls \in LineSeqs(OddPool, MaxOddLines), t \in {<<>>, <<NL>>}, m \in KeySets({AttrA}) :
           InitWith(JoinLines(ls) \o t, m, NoIncludeCb)
    \/ \E t \in TargetExprs, m \in KeySets({AttrA, AttrB, <<>>}) :
           \/ InitWith(JoinLines(<<IfDefLine(t, <<>>), X, EndIfLine(<<>>), Y>>), m, NoIncludeCb)
           \/ InitWith(JoinLines(<<IfNotDefLine(t, <<>>), X, EndIfLine(<<>>), Y>>), m, NoIncludeCb)
    \/ \E ls \in LineSeqs(IncludePool, MaxIncludeLines), t \in {<<>>, <<NL>>},
          m \in KeySets({AttrA}), cb \in Callbacks :
           InitWith(JoinLines(ls) \o t, m, cb)

\* Each action is the iteration of the loop that takes one branch.  The
\* branch for a document attribute (line 121) is not an action: the stub
\* parse_doc_attrib never returns Some.

\* next_line is None: pop the exhausted source and continue
PopInclude ==
    /\ result = Running
    /\ LET n == amalgamate_step(Self) IN n.arm = "Pop" /\ Update(n)

\* the include stack is empty: leave the loop, pop the last character, Ok
Break ==
    /\ result = Running
    /\ LET n == amalgamate_step(Self) IN n.arm = "Break" /\ Update(n)

EndIf ==
    /\ result = Running
    /\ LET n == amalgamate_step(Self) IN n.arm = "EndIf" /\ Update(n)

\* once the callback has been invoked MaxCalls times, the run is followed
\* no further
Include ==
    /\ result = Running
    /\ Len(cb_calls) < MaxCalls \/ Len(include_stack) >= max_include_depth
    /\ LET n == amalgamate_step(Self) IN n.arm = "Include" /\ Update(n)

IfDefInline ==
    /\ result = Running
    /\ LET n == amalgamate_step(Self) IN n.arm = "IfDefInline" /\ Update(n)

IfDefBlock ==
    /\ result = Running
    /\ LET n == amalgamate_step(Self) IN n.arm = "IfDefBlock" /\ Update(n)

IfNotDefInline ==
    /\ result = Running
    /\ LET n == amalgamate_step(Self) IN n.arm = "IfNotDefInline" /\ Update(n)

IfNotDefBlock ==
    /\ result = Running
    /\ LET n == amalgamate_step(Self) IN n.arm = "IfNotDefBlock" /\ Update(n)

\* IfEval, or Include while skipping: the arm `_ => {}`
Other ==
    /\ result = Running
    /\ LET n == amalgamate_step(Self) IN n.arm = "Other" /\ Update(n)

\* a line that is no directive
Plain ==
    /\ result = Running
    /\ LET n == amalgamate_step(Self) IN n.arm = "Plain" /\ Update(n)

Next ==
    \/ PopInclude
    \/ Break
    \/ EndIf
    \/ Include
    \/ IfDefInline
    \/ IfDefBlock
    \/ IfNotDefInline
    \/ IfNotDefBlock
    \/ Other
    \/ Plain

Spec == Init /\ [][Next]_vars

----------------------------------------------------------------------------
(* Notions the properties are stated with.  They are written from the      *)
(* directive syntax and the documented semantics, not from the parser.     *)

SourceLines(src) == split(src, NL)

\* the line the next iteration reads (meaningful while a source is on the stack)
CurLine == next_line(Last(include_stack)).line
Reading == result = Running /\ Len(include_stack) > 0 /\ next_line(Last(include_stack)).some

\* l begins with tag, then has at least min characters other than "[", then
\* "[", and a "]" somewhere after it
HasDirectiveForm(l, tag, min) ==
    /\ starts_with(l, tag)
    /\ \E i \in (Len(tag) + min + 1)..Len(l) :
          /\ l[i] = "["
          /\ \A j \in (Len(tag) + 1)..(i - 1) : l[j] # "["
          /\ \E k \in (i + 1)..Len(l) : l[k] = "]"

\* l is a well-formed directive line
WellFormedDirective(l) ==
    \/ HasDirectiveForm(l, TagInclude, 1)
    \/ HasDirectiveForm(l, TagIfDef, 1)
    \/ HasDirectiveForm(l, TagIfNotDef, 1)
    \/ HasDirectiveForm(l, TagEndIf, 0)
    \/ HasDirectiveForm(l, TagIfEval, 0)

Names == {AttrA, AttrB}
IsIfDefBlock(l) == \E t \in Names : l = IfDefLine(t, <<>>)
IsIfNotDefBlock(l) == \E t \in Names : l = IfNotDefLine(t, <<>>)
BlockName(l) == CHOOSE t \in Names : l \in {IfDefLine(t, <<>>), IfNotDefLine(t, <<>>)}
IsPlainLine(l) == Len(l) <= 1 /\ l # <<"[">>

\* every line is a plain line, `ifdef::T[]`, `ifndef::T[]` or `endif::[]`
IsCondSource(ls) ==
    \A k \in 1..Len(ls) :
        IsPlainLine(ls[k]) \/ IsIfDefBlock(ls[k]) \/ IsIfNotDefBlock(ls[k]) \/ ls[k] = EndIfLine(<<>>)

\* every endif closes an open conditional and none is left open
RECURSIVE WellNested(_, _)
WellNested(ls, open) ==
    IF Len(ls) = 0 THEN open = 0
    ELSE IF IsIfDefBlock(Head(ls)) \/ IsIfNotDefBlock(Head(ls)) THEN WellNested(Tail(ls), open + 1)
    ELSE IF Head(ls) = EndIfLine(<<>>) THEN open > 0 /\ WellNested(Tail(ls), open - 1)
    ELSE WellNested(Tail(ls), open)

\* the plain lines whose enclosing conditionals all hold, in source order;
\* enclosing is the sequence of the truth values of the open conditionals
RECURSIVE EnabledLines(_, _, _)
EnabledLines(ls, enclosing, attributes) ==
    IF Len(ls) = 0 THEN <<>>
    ELSE IF IsIfDefBlock(Head(ls))
    THEN EnabledLines(Tail(ls), Append(enclosing, BlockName(Head(ls)) \in DOMAIN attributes), attributes)
    ELSE IF IsIfNotDefBlock(Head(ls))
    THEN EnabledLines(Tail(ls), Append(enclosing, BlockName(Head(ls)) \notin DOMAIN attributes), attributes)
    ELSE IF Head(ls) = EndIfLine(<<>>)
    THEN EnabledLines(Tail(ls), Front(enclosing), attributes)
    ELSE (IF \A i \in 1..Len(enclosing) : enclosing[i] THEN <<Head(ls)>> ELSE <<>>)
         \o EnabledLines(Tail(ls), enclosing, attributes)

----------------------------------------------------------------------------
(* C1 *)

\* C1: for a source of plain lines and well-nested block conditionals, the
\* amalgamated output consists of exactly the plain lines all of whose
\* enclosing ifdef have active targets and all of whose enclosing ifndef have
\* inactive targets, in source order.
C1_NestedConditionals ==
    (result = Ok /\ IsCondSource(SourceLines(source)) /\ WellNested(SourceLines(source), 0))
        => amalgamated = JoinLines(EnabledLines(SourceLines(source), <<>>, attribute_map))

\* an inactive outer ifdef::A with an active inner ifndef::B: the lines inside
\* the inner one and after its endif stay out, the line after the outer endif is in
C1_Witness ==
    /\ result = Ok
    /\ source = JoinLines(<<IfDefLine(AttrA, <<>>), <<"q">>, IfNotDefLine(AttrB, <<>>), <<"s">>,
                            EndIfLine(<<>>), <<"u">>, EndIfLine(<<>>), <<"w">> >>)
    /\ DOMAIN attribute_map = {}
    /\ amalgamated = <<"w">>

----------------------------------------------------------------------------
(* C2 *)

\* the maximal segments of t that hold no c
PartsBetween(t, c) ==
    {SubSeq(t, i, j) : <<i, j>> \in
        {p \in (1..(Len(t) + 1)) \X (0..Len(t)) :
            /\ p[1] <= p[2] + 1
            /\ (p[1] = 1 \/ t[p[1] - 1] = c)
            /\ (p[2] = Len(t) \/ t[p[2] + 1] = c)
            /\ \A k \in p[1]..p[2] : t[k] # c}}

IsOperator(ch) == ch = "+" \/ ch = ","

\* the documented meaning of a target expression: the first operator decides
ActiveByFirstOperator(t, attributes) ==
    IF \A i \in 1..Len(t) : ~IsOperator(t[i]) THEN t \in DOMAIN attributes
    ELSE LET first == CHOOSE i \in 1..Len(t) : IsOperator(t[i]) /\ \A j \in 1..(i - 1) : ~IsOperator(t[j])
         IN  IF t[first] = "+"
             THEN \A part \in PartsBetween(t, "+") : part \in DOMAIN attributes
             ELSE \E part \in PartsBetween(t, ",") : part \in DOMAIN attributes

\* the target expression of a source `if[n]def::<t>[]`, x, `endif::[]`, y
FirstTargets(tag) == Take(Drop(source, Len(tag)), take_till(Drop(source, Len(tag)), "["))
IsTargetSource(tag) ==
    /\ starts_with(source, tag)
    /\ FirstTargets(tag) \in TargetExprs
    /\ source = JoinLines(<<tag \o FirstTargets(tag) \o <<"[", "]">>, X, EndIfLine(<<>>), Y>>)

\* C2: check_targets_active decides by the first operator character: split on
\* `+`, all parts are keys; split on `,`, some part is a key; no operator, the
\* string is a key. A block ifdef with these targets emits its body iff they
\* are active, a block ifndef iff they are not.
C2_TargetExpressions ==
    /\ (result = Ok /\ IsTargetSource(TagIfDef)) =>
          /\ check_targets_active(FirstTargets(TagIfDef), attribute_map)
                = ActiveByFirstOperator(FirstTargets(TagIfDef), attribute_map)
          /\ amalgamated = IF ActiveByFirstOperator(FirstTargets(TagIfDef), attribute_map)
                           THEN JoinLines(<<X, Y>>) ELSE Y
    /\ (result = Ok /\ IsTargetSource(TagIfNotDef)) =>
          /\ check_targets_active(FirstTargets(TagIfNotDef), attribute_map)
                = ActiveByFirstOperator(FirstTargets(TagIfNotDef), attribute_map)
          /\ amalgamated = IF ActiveByFirstOperator(FirstTargets(TagIfNotDef), attribute_map)
                           THEN Y ELSE JoinLines(<<X, Y>>)

\* `ifdef::A,+[]` with only A present: the first operator is `,`, so the
\* parts are "A" and "+", one of them is a key, and the body is emitted
C2_Witness ==
    /\ result = Ok
    /\ source = JoinLines(<<IfDefLine(<<"A", ",", "+">>, <<>>), X, EndIfLine(<<>>), Y>>)
    /\ DOMAIN attribute_map = {AttrA}
    /\ amalgamated = JoinLines(<<X, Y>>)

----------------------------------------------------------------------------
(* C3 *)

InlineTexts == {Inl, TagEndIf \o <<"[">>}

\* C3: an iteration that reads `ifdef::X[inline]` appends inline and a newline
\* to the output iff X is a key and the preprocessor is not skipping, and an
\* iteration that reads `ifndef::X[inline]` iff X is no key and it is not
\* skipping; otherwise the output is unchanged. Nothing else changes.
C3_InlineConditional ==
    [][\A x \in Names, inline \in InlineTexts :
          /\ (Reading /\ CurLine = IfDefLine(x, inline)) =>
                /\ amalgamated' = IF x \in DOMAIN attribute_map /\ ~skipping
                                  THEN amalgamated \o inline \o <<NL>> ELSE amalgamated
                /\ UNCHANGED <<skipping, conditional_stack, cb_calls, result>>
          /\ (Reading /\ CurLine = IfNotDefLine(x, inline)) =>
                /\ amalgamated' = IF x \notin DOMAIN attribute_map /\ ~skipping
                                  THEN amalgamated \o inline \o <<NL>> ELSE amalgamated
                /\ UNCHANGED <<skipping, conditional_stack, cb_calls, result>>]_vars

\* an inline ifdef whose target is present, read while an inactive block
\* ifdef::B[] suppresses output: nothing is emitted
C3_Witness ==
    /\ arm = "IfDefInline"
    /\ line = IfDefLine(AttrA, Inl)
    /\ AttrA \in DOMAIN attribute_map
    /\ skipping
    /\ amalgamated = <<>>

----------------------------------------------------------------------------
(* C4 *)

\* the include chain of test_recursive_include: root "include::a[]",
\* a = "x\ninclude::b[]\ny\n", b = "z", no attributes
C4_Chain ==
    /\ source = IncludeLine(FileA)
    /\ include_cb = (FileA :> CbOk(SrcChain) @@ FileB :> CbOk(Z))
    /\ DOMAIN attribute_map = {}

\* C4 as stated: the chain amalgamates to "x\nz\ny", without a final newline.
C4_AsStated ==
    (C4_Chain /\ result # Running) => (result = Ok /\ amalgamated = JoinLines(<<X, Z, Y>>))

\* C4 (amended): the chain never fails, the callback is asked for a and then
\* for b, and the result is "x\nz\ny\n": the lines of b stand where the
\* directive stood, a resumes after b, and the final newline of a is kept
\* (the newline removed is the one pushed after a's last, empty line).
C4_ChainResult ==
    /\ C4_Chain => result \in {Running, Ok}
    /\ (C4_Chain /\ result = Ok) =>
          /\ amalgamated = JoinLines(<<X, Z, Y, <<>> >>)
          /\ cb_calls = <<FileA, FileB>>

C4_Witness == C4_Chain /\ result = Ok /\ amalgamated = <<"x", NL, "z", NL, "y", NL>>

----------------------------------------------------------------------------
(* C5 *)

IsConditionalLine(l) ==
    starts_with(l, TagIfDef) \/ starts_with(l, TagIfNotDef)
        \/ starts_with(l, TagEndIf) \/ starts_with(l, TagIfEval)

NoConditionals(src) == \A k \in 1..Len(SourceLines(src)) : ~IsConditionalLine(SourceLines(src)[k])

\* the source with the text of its i-th line replaced by text
Paste(src, i, text) == JoinLines([SourceLines(src) EXCEPT ![i] = text])

\* C5: for sources without conditional directives, the result for a root
\* holding the line `include::t[]` equals the result for the root with that
\* line's text replaced by the source the callback returns for t, wherever
\* the directive stands.
C5_TextualPaste ==
    (/\ result = Ok
     /\ NoConditionals(source)
     /\ \A t \in DOMAIN include_cb : include_cb[t].ok => NoConditionals(include_cb[t].val))
    => \A i \in 1..Len(SourceLines(source)), t \in DOMAIN include_cb :
          (SourceLines(source)[i] = IncludeLine(t) /\ include_cb[t].ok) =>
              LET pasted == amalgamate(new(Paste(source, i, include_cb[t].val),
                                           include_cb, attribute_map), MaxRunSteps)
              IN  pasted.result = Ok /\ pasted.amalgamated = amalgamated

----------------------------------------------------------------------------
(* C6 *)

Targets == {FileA, FileB}

\* C6: the include stack never holds more than max_include_depth sources, and
\* the iteration that reads an include directive while not skipping, with
\* max_include_depth sources on the stack, returns MaxIncludeDepthReached
\* without invoking the callback.
C6_IncludeDepth ==
    /\ [](Len(include_stack) <= max_include_depth)
    /\ [][\A t \in Targets :
             (Reading /\ CurLine = IncludeLine(t) /\ ~skipping
                  /\ Len(include_stack) >= max_include_depth)
             => /\ result' = MaxIncludeDepthReached
                /\ cb_calls' = cb_calls
                /\ amalgamated' = amalgamated]_vars

\* a source that includes itself before its last line fills the stack
C6_Witness ==
    /\ result = MaxIncludeDepthReached
    /\ Len(include_stack) = max_include_depth
    /\ Len(cb_calls) = max_include_depth - 1
    /\ line = IncludeLine(FileA)

----------------------------------------------------------------------------
(* C7 *)

OutputLines == SourceLines(amalgamated)

BeginsWithDirectiveTag(l) ==
    starts_with(l, TagInclude) \/ starts_with(l, TagIfDef) \/ starts_with(l, TagIfNotDef)
        \/ starts_with(l, TagEndIf) \/ starts_with(l, TagIfEval)

\* C7 as stated: no line of the output begins with `include::`, `ifdef::`,
\* `ifndef::`, `endif::` or `ifeval::` (a line that starts with `[` begins
\* with none of them).
C7_AsStated == \A k \in 1..Len(OutputLines) : ~BeginsWithDirectiveTag(OutputLines[k])

\* C7 (amended): no line of the output is a well-formed directive, that is
\* one of the five prefixes, a target (not empty for include, ifdef and
\* ifndef) and a bracket list that is closed. Lines that only begin like a
\* directive, such as `ifdef::[]` or `include::a`, and inline texts are
\* emitted as they are.
C7_NoWellFormedDirective == \A k \in 1..Len(OutputLines) : ~WellFormedDirective(OutputLines[k])

\* `ifdef::[]` has no target and is emitted; the `ifeval::[]` after it is not
C7_Witness ==
    /\ result = Ok
    /\ source = JoinLines(<<TagIfDef \o <<"[", "]">>, IfEvalLine(<<>>)>>)
    /\ amalgamated = TagIfDef \o <<"[", "]">>

----------------------------------------------------------------------------
(* C8 *)

NoDirectiveLine(src) ==
    \A k \in 1..Len(SourceLines(src)) : ~WellFormedDirective(SourceLines(src)[k])
NoCarriageReturn(src) == \A i \in 1..Len(src) : src[i] # CR

\* C8: for a root source without directive lines and carriage returns,
\* amalgamate never fails, never invokes the callback, and returns with
\* amalgamated equal to the source.
C8_Identity ==
    (NoDirectiveLine(source) /\ NoCarriageReturn(source)) =>
        /\ result \in {Running, Ok}
        /\ cb_calls = <<>>
        /\ result = Ok => amalgamated = source

\* a document-attribute line, a blank line and a final newline: all kept
C8_Witness ==
    /\ result = Ok
    /\ source = <<":", "s", ":", NL, NL>>
    /\ amalgamated = source

----------------------------------------------------------------------------
(* C9 *)

CbAnswer(t) == call_include_cb(include_cb, attribute_map, t)

\* C9: the callback is invoked exactly by the iterations that read an include
\* directive while not skipping and below the depth limit, once each, with
\* the directive's target; an include directive read while skipping is
\* dropped; an Err(e) of the callback makes amalgamate return IncludeError(e)
\* in that iteration, nothing is processed after amalgamate has returned, and
\* DocumentSource::new returns that error.
C9_IncludeCallback ==
    /\ [](result.kind = "IncludeError" =>
            /\ cb_calls # <<>>
            /\ ~CbAnswer(Last(cb_calls)).ok
            /\ result = IncludeError(CbAnswer(Last(cb_calls)).val)
            /\ DocumentSource_new(Self) = [ok |-> FALSE, val |-> IncludeError(CbAnswer(Last(cb_calls)).val)])
    /\ [][/\ \A t \in Targets :
                (Reading /\ CurLine = IncludeLine(t)) =>
                    IF skipping
                    THEN /\ UNCHANGED <<cb_calls, amalgamated, result, conditional_stack, skipping>>
                         /\ include_stack' = [include_stack EXCEPT ![Len(include_stack)] =
                                                  next_line(Last(include_stack)).include]
                    ELSE IF Len(include_stack) >= max_include_depth
                    THEN cb_calls' = cb_calls
                    ELSE /\ cb_calls' = Append(cb_calls, t)
                         /\ amalgamated' = amalgamated
                         /\ IF CbAnswer(t).ok
                            THEN /\ result' = Running
                                 /\ Last(include_stack') = [source |-> CbAnswer(t).val, processed |-> 0]
                            ELSE result' = IncludeError(CbAnswer(t).val)
          /\ cb_calls' # cb_calls =>
                (Reading /\ ~skipping /\ \E t \in Targets : CurLine = IncludeLine(t))
          /\ result # Running => UNCHANGED vars]_vars

\* b is included and read, then the callback fails for a
C9_Witness ==
    /\ result = IncludeError("E2")
    /\ cb_calls = <<FileB, FileA>>
    /\ amalgamated = <<"z", NL>>
    /\ DocumentSource_new(Self) = [ok |-> FALSE, val |-> IncludeError("E2")]

----------------------------------------------------------------------------
(* C10 *)

EvalExprs == {<<"e">>, <<>>}

\* every line is plain, `ifeval::[e]` or `endif::[]`
IsIfEvalSource(ls) ==
    \A k \in 1..Len(ls) :
        IsPlainLine(ls[k]) \/ ls[k] = EndIfLine(<<>>) \/ \E e \in EvalExprs : ls[k] = IfEvalLine(e)

\* C10: the iteration that reads `ifeval::[expr]` while not skipping changes
\* neither the output nor skipping nor the conditional stack, and in a source
\* of plain lines, ifeval and endif lines every plain line is emitted.
C10_IfEvalNoOp ==
    /\ []((result = Ok /\ IsIfEvalSource(SourceLines(source))) =>
             amalgamated = JoinLines(SelectSeq(SourceLines(source), IsPlainLine)))
    /\ [][\A e \in EvalExprs :
             (Reading /\ CurLine = IfEvalLine(e) /\ ~skipping) =>
                 /\ UNCHANGED <<amalgamated, skipping, conditional_stack, cb_calls, result>>
                 /\ Len(include_stack') = Len(include_stack)]_vars

\* the guarded line x is emitted, the ifeval line and its endif are not
C10_Witness ==
    /\ result = Ok
    /\ source = JoinLines(<<IfEvalLine(<<"e">>), X, EndIfLine(<<>>)>>)
    /\ arm = "Break"
    /\ amalgamated = X


----------------------------------------------------------------------------
(* The parser (src/src/parser.rs, src/src/parser/nom_ext.rs).  A Span is    *)
(* modelled by its text; a PResult is a record: ok says whether the parser *)
(* matched, i is the rest of the input and o the value.  An Option is a    *)
(* sequence of no or one element, and so is the Vec of a DocAttribute.     *)
(* The combinators of the nom library that parser.rs imports (lines 1-7)   *)
(* are operators that take the parsers they combine as arguments.          *)

ParseOk(rest, o) == [ok |-> TRUE, i |-> rest, o |-> o]
ParseErr == [ok |-> FALSE]

None == <<>>
Some(v) == <<v>>

\* char::is_whitespace, over the characters of the model
is_whitespace(c) == c \in {" ", "\t", NL, CR}

\* the predicate of ws and ws1: whitespace other than the newline
is_horizontal_whitespace(c) == c # NL /\ is_whitespace(c)

\* nom AsChar::is_dec_digit
is_dec_digit(c) == c \in {"0", "1", "2", "3", "4", "5", "6", "7", "8", "9"}

\* nom AsChar::is_alpha
is_alpha(c) ==
    c \in {"a", "b", "c", "d", "e", "f", "g", "h", "i", "j", "k", "l", "m",
           "n", "o", "p", "q", "r", "s", "t", "u", "v", "w", "x", "y", "z",
           "A", "B", "C", "D", "E", "F", "G", "H", "I", "J", "K", "L", "M",
           "N", "O", "P", "Q", "R", "S", "T", "U", "V", "W", "X", "Y", "Z"}

\* nom AsChar::is_alphanum
is_alphanum(c) == is_alpha(c) \/ is_dec_digit(c)

\* the length of the longest prefix of i all of whose characters satisfy P
prefix_len(i, P(_)) ==
    CHOOSE n \in 0..Len(i) :
        /\ \A j \in 1..n : P(i[j])
        /\ n = Len(i) \/ ~P(i[n + 1])

\* nom take_while(P)
take_while(P(_), i) ==
    LET n == prefix_len(i, P) IN ParseOk(Drop(i, n), Take(i, n))

\* nom take_while1(P)
take_while1(P(_), i) ==
    LET n == prefix_len(i, P)
    IN  IF n = 0 THEN ParseErr ELSE ParseOk(Drop(i, n), Take(i, n))

\* nom tag(t)
tag(t, i) == IF starts_with(i, t) THEN ParseOk(Drop(i, Len(t)), t) ELSE ParseErr

\* nom take_until(t): up to the first occurrence of t, which must exist
take_until(t, i) ==
    LET at(n) == starts_with(Drop(i, n), t)
    IN  IF \E n \in 0..Len(i) : at(n)
        THEN LET n == CHOOSE n \in 0..Len(i) : at(n) /\ \A m \in 0..(n - 1) : ~at(m)
             IN  ParseOk(Drop(i, n), Take(i, n))
        ELSE ParseErr

\* nom newline
newline(i) == tag(<<NL>>, i)

\* nom none_of(list): one character that is not in the list
none_of(list, i) ==
    IF Len(i) > 0 /\ \A j \in 1..Len(list) : list[j] # i[1]
    THEN ParseOk(Drop(i, 1), i[1])
    ELSE ParseErr

\* nom alphanumeric1 and digit1
alphanumeric1(i) == take_while1(is_alphanum, i)
digit1(i) == take_while1(is_dec_digit, i)

\* nom opt(P)
opt(P(_), i) ==
    LET r == P(i) IN IF r.ok THEN ParseOk(r.i, Some(r.o)) ELSE ParseOk(i, None)

\* nom map(P, F)
map(P(_), F(_), i) ==
    LET r == P(i) IN IF r.ok THEN ParseOk(r.i, F(r.o)) ELSE ParseErr

\* nom map_opt(P, F): fails when F gives None
map_opt(P(_), F(_), i) ==
    LET r == P(i)
    IN  IF r.ok /\ F(r.o) # None THEN ParseOk(r.i, F(r.o)[1]) ELSE ParseErr

\* nom recognize(P): the input P consumed
recognize(P(_), i) ==
    LET r == P(i)
    IN  IF r.ok THEN ParseOk(r.i, Take(i, Len(i) - Len(r.i))) ELSE ParseErr

\* nom pair(P, Q)
pair(P(_), Q(_), i) ==
    LET a == P(i)
    IN  IF ~a.ok THEN ParseErr
        ELSE LET b == Q(a.i)
             IN  IF b.ok THEN ParseOk(b.i, <<a.o, b.o>>) ELSE ParseErr

\* nom preceded(P, Q): the value of Q
preceded(P(_), Q(_), i) == map(LAMBDA j : pair(P, Q, j), LAMBDA o : o[2], i)

\* nom terminated(P, Q): the value of P
terminated(P(_), Q(_), i) == map(LAMBDA j : pair(P, Q, j), LAMBDA o : o[1], i)

\* nom delimited(P, Q, R): the value of Q
delimited(P(_), Q(_), R(_), i) == preceded(P, LAMBDA j : terminated(Q, R, j), i)

\* nom tuple((P, Q, R))
tuple(P(_), Q(_), R(_), i) ==
    map(LAMBDA j : pair(P, LAMBDA k : pair(Q, R, k), j),
        LAMBDA o : <<o[1], o[2][1], o[2][2]>>, i)

\* nom alt((P, Q, R)): the first alternative that matches
alt(P(_), Q(_), R(_), i) ==
    IF P(i).ok THEN P(i) ELSE IF Q(i).ok THEN Q(i) ELSE R(i)

\* nom many0(P): P as often as it matches; a match that consumes nothing is
\* an error
RECURSIVE many0(_, _)
many0(P(_), i) ==
    LET r == P(i)
    IN  IF ~r.ok THEN ParseOk(i, <<>>)
        ELSE IF r.i = i THEN ParseErr
        ELSE LET m == many0(P, r.i)
             IN  IF m.ok THEN ParseOk(m.i, <<r.o>> \o m.o) ELSE ParseErr

\* nom many1(P): as many0, but P must match at least once
many1(P(_), i) ==
    LET r == P(i)
    IN  IF ~r.ok \/ r.i = i THEN ParseErr
        ELSE map(LAMBDA j : many0(P, j), LAMBDA o : <<r.o>> \o o, r.i)

\* nom fold_many_m_n(min, max, P, init, F): the loop `for count in 0..max`
RECURSIVE fold_many_m_n_from(_, _, _, _, _, _, _)
fold_many_m_n_from(count, min, max, P(_), acc, F(_, _), i) ==
    IF count >= max THEN ParseOk(i, acc)
    ELSE LET r == P(i)
         IN  IF r.ok
             THEN IF r.i = i THEN ParseErr
                  ELSE fold_many_m_n_from(count + 1, min, max, P, F(acc, r.o), F, r.i)
             ELSE IF count < min THEN ParseErr ELSE ParseOk(i, acc)

fold_many_m_n(min, max, P(_), init, F(_, _), i) ==
    fold_many_m_n_from(0, min, max, P, init, F, i)

\* str::parse::<usize> of a string of decimal digits (the strings of the model are
\* far below usize::MAX, so the result is always Some)
RECURSIVE parse_usize(_)
parse_usize(s) ==
    IF Len(s) = 0 THEN 0
    ELSE 10 * parse_usize(Front(s))
         + (CHOOSE d \in 0..9 : <<"0", "1", "2", "3", "4", "5", "6", "7", "8", "9">>[d + 1] = Last(s))

(* nom_ext.rs *)

ws(i) == take_while(is_horizontal_whitespace, i)

ws1(i) == take_while1(is_horizontal_whitespace, i)

wsnl(i) == take_while(is_whitespace, i)

\* ws_delimited (nom_ext.rs, lines 30-34)
ws_delimited(P(_), i) == delimited(ws, P, ws, i)

take_line(i) ==
    terminated(LAMBDA j : take_until(<<NL>>, j), LAMBDA j : tag(<<NL>>, j), i)

ws_with_nl(i) == terminated(ws, LAMBDA j : tag(<<NL>>, j), i)

(* parser.rs *)

\* the closure ctor of parse_doc_attribute with a slip: the `!` after the
\* opening colon is ignored
ctor_ignores_bang1(o) ==
    LET id == o[1][2]
        ends_with_bang == Last(id) = "!"
    IN  [id |-> IF ends_with_bang THEN Take(id, Len(id) - 1) ELSE id,
         unset |-> ends_with_bang,
         value |-> o[2]]

\* the closure ctor with a slip: every trailing `!` is stripped
ctor_strips_all_bangs(o) ==
    LET id == o[1][2]
        n == CHOOSE n \in 0..Len(id) :
                 /\ \A j \in (n + 1)..Len(id) : id[j] = "!"
                 /\ n = 0 \/ id[n] # "!"
    IN  [id |-> Take(id, n),
         unset |-> o[1][1] # None \/ n < Len(id),
         value |-> o[2]]

\* the closure ctor of parse_doc_attribute; o is ((bang1, id), value), and
\* id is not empty, as take_while1 produced it
ctor(o) ==
    LET bang1 == o[1][1]
        id == o[1][2]
        value == o[2]
        ends_with_bang == Last(id) = "!"
    IN  [id |-> IF ends_with_bang THEN Take(id, Len(id) - 1) ELSE id,
         unset |-> bang1 # None \/ ends_with_bang,
         value |-> value]

\* the local parser `id` of parse_doc_attribute
doc_attribute_id(i) ==
    delimited(LAMBDA j : tag(<<":">>, j),
              LAMBDA j : pair(LAMBDA k : opt(LAMBDA l : tag(<<"!">>, l), k),
                              LAMBDA k : take_while1(LAMBDA c : c # NL /\ c # ":", k), j),
              LAMBDA j : tag(<<":">>, j), i)

parse_doc_attribute(i) ==
    map(LAMBDA j : terminated(
            LAMBDA k : pair(doc_attribute_id,
                            LAMBDA l : opt(LAMBDA m : preceded(ws1, LAMBDA n : take_until(<<NL>>, n), m), l),
                            k),
            ws_with_nl, j),
        ctor, i)

\* parse_doc_header with a slip: at most one attribute is taken
parse_doc_header_one_attribute(i) ==
    LET t == preceded(LAMBDA j : tag(<<"=", " ">>, j), take_line, i)
    IN  IF ~t.ok THEN ParseErr
        ELSE LET a == opt(parse_doc_attribute, t.i)
             IN  ParseOk(a.i, [title |-> t.o, author |-> None, version |-> None,
                               attributes |-> a.o])

parse_doc_header(i) ==
    LET t == preceded(LAMBDA j : tag(<<"=", " ">>, j),
                      LAMBDA j : terminated(LAMBDA k : take_until(<<NL>>, k),
                                            LAMBDA k : tag(<<NL>>, k), j), i)
    IN  IF ~t.ok THEN ParseErr
        ELSE LET a == many0(parse_doc_attribute, t.i)
             IN  IF ~a.ok THEN ParseErr
                 ELSE ParseOk(a.i, [title |-> t.o, author |-> None, version |-> None,
                                    attributes |-> a.o])

\* the local parser `name` of parse_attribute
name(i) ==
    recognize(LAMBDA j : pair(alphanumeric1,
                              LAMBDA k : many0(LAMBDA l : alt(alphanumeric1,
                                                              LAMBDA m : tag(<<"-">>, m),
                                                              LAMBDA m : tag(<<".">>, m), l), k),
                              j), i)

parse_attribute(i) ==
    pair(name,
         LAMBDA j : opt(LAMBDA k : preceded(
                            LAMBDA l : ws_delimited(LAMBDA m : tag(<<"=">>, m), l),
                            LAMBDA l : recognize(LAMBDA m : many1(LAMBDA n : none_of(<<",", "]", NL>>, n), m), l),
                            k), j),
         i)

\* HashMap::insert with a slip: a key that is present keeps its value
insert_keeps_first(al, key, val) ==
    [k \in DOMAIN al \cup {key} |->
        IF k \in DOMAIN al THEN al[k] ELSE val]

\* HashMap::insert: the value of a key that is present is replaced
insert(al, key, val) ==
    [k \in DOMAIN al \cup {key} |-> IF k = key THEN val ELSE al[k]]

\* the `while let` loop of the closure parse_attributes
RECURSIVE parse_attributes_while(_, _)
parse_attributes_while(i, al) ==
    LET r == preceded(LAMBDA j : ws_delimited(LAMBDA k : tag(<<",">>, k), j), parse_attribute, i)
    IN  IF r.ok
        THEN parse_attributes_while(r.i, insert(al, r.o[1], r.o[2]))
        ELSE ParseOk(i, al)

\* the closure parse_attributes of parse_attribute_list; AttributeList::default()
\* is the empty map
parse_attributes(i) ==
    LET r == parse_attribute(i)
    IN  IF r.ok
        THEN parse_attributes_while(r.i, insert(<<>>, r.o[1], r.o[2]))
        ELSE parse_attributes_while(i, <<>>)

parse_attribute_list(i) ==
    delimited(LAMBDA j : tag(<<"[">>, j), parse_attributes, LAMBDA j : tag(<<"]">>, j), i)

parse_callout(i) ==
    map(LAMBDA j : pair(
            LAMBDA k : map_opt(LAMBDA l : delimited(LAMBDA m : tag(<<"<">>, m), digit1,
                                                    LAMBDA m : tag(<<">">>, m), l),
                               LAMBDA span : Some(parse_usize(span)), k),
            LAMBDA k : delimited(ws, LAMBDA l : take_until(<<NL>>, l), newline, k),
            j),
        LAMBDA o : [number |-> o[1], text |-> o[2]], i)

parse_callouts(i) == many0(parse_callout, i)

ThematicBreak == [kind |-> "ThematicBreak"]
PageBreak == [kind |-> "PageBreak"]
Listing(span) == [kind |-> "Listing", span |-> span]

\* the character U+0060 of the listing fence, which a TLA+ string cannot hold,
\* and the fence of three of them
GraveAccent == "U+0060"
Fence == <<GraveAccent, GraveAccent, GraveAccent>>

\* the local parsers of parse_attributed_block
thematic_break(i) == map(LAMBDA j : tag(<<"'", "'", "'">>, j), LAMBDA o : ThematicBreak, i)
page_break(i) == map(LAMBDA j : tag(<<">", ">", ">">>, j), LAMBDA o : PageBreak, i)
fenced(i) ==
    map(LAMBDA j : delimited(LAMBDA k : pair(LAMBDA l : tag(Fence, l), newline, k),
                             LAMBDA k : take_until(Fence, k),
                             LAMBDA k : tag(Fence, k), j),
        Listing, i)
parse_block(i) ==
    terminated(LAMBDA j : alt(thematic_break, page_break, fenced, j), ws_with_nl, i)

parse_attributed_block(i) ==
    preceded(LAMBDA j : many0(ws_with_nl, j),
             LAMBDA j : map(LAMBDA k : tuple(LAMBDA l : opt(parse_attribute_list, l),
                                             parse_block, parse_callouts, k),
                            LAMBDA o : [context |-> o[2],
                                        attributes |-> IF o[1] = None THEN <<>> ELSE o[1][1],
                                        callouts |-> o[3]],
                            j),
             i)

parse_blocks(i) == many0(parse_attributed_block, i)

\* the local parser parse_level of parse_section_title, before `terminated`
parse_level(i) ==
    map(LAMBDA j : fold_many_m_n(1, 6, LAMBDA k : tag(<<"=">>, k), 0,
                                 LAMBDA acc, o : acc + 1, j),
        LAMBDA level : level - 1, i)

parse_section_title(i) ==
    LET l == terminated(parse_level, ws, i)
    IN  IF ~l.ok THEN ParseErr
        ELSE LET c == take_line(l.i)
             IN  IF ~c.ok THEN ParseErr
                 ELSE ParseOk(c.i, [level |-> l.o, content |-> c.o])

----------------------------------------------------------------------------
(* The parser inputs *)

MaxShortLen == 4
MaxHeaderLines == 3
MaxAttrs == 3
MaxEquals == 8

\* concatenation of a sequence of strings
RECURSIVE Concat(_)
Concat(ss) == IF Len(ss) = 0 THEN <<>> ELSE ss[1] \o Concat(Tail(ss))

\* every string of at most MaxShortLen characters of a document-attribute line
ShortInputs == UNION {[1..k -> {":", "!", "X", " ", NL}] : k \in 0..MaxShortLen}

\* document-attribute lines: `:`, marks, a name, marks, `:`, a value, an end
DocAttributeInputs ==
    {Concat(<<<<":">>, b1, <<"X">>, b2, <<":">>, v, e>>) :
        b1 \in {<<>>, <<"!">>},
        b2 \in {<<>>, <<"!">>, <<"!", "!">>},
        v \in {<<>>, <<" ">>, <<" ", "b">>, <<" ", "b", " ", "c", " ", " ">>, <<"b">>},
        e \in {<<NL>>, <<>>, <<NL, ":", "Y", ":", NL>>}}

\* the lines after the title line of a header
HeaderPool ==
    {<<":", "a", ":">>, <<":", "a", ":", " ", "v">>, <<":", "b", "!", ":">>,
     <<>>, <<"x">>, <<":", "!", ":">>}

\* the input of the repository's test of parse_doc_header, with short names:
\* two attributes of the same id, a blank line, one more attribute
HeaderTestInput ==
    <<"=", " ", "T", NL>>
    \o JoinLines(<<<<":", "a", ":", " ", "v">>, <<":", "a", ":">>, <<>>, <<":", "b", ":">>>>)
    \o <<NL>>

\* `= `, a title, and lines of HeaderPool, the last one with or without its
\* newline; and the same without the title line or without the space
HeaderInputs ==
    {Concat(<<h, ti, <<NL>>, JoinLines(ls), e>>) :
        h \in {<<"=", " ">>}, ti \in {<<"T">>, <<>>},
        ls \in LineSeqs(HeaderPool, MaxHeaderLines), e \in {<<NL>>, <<>>}}
    \cup {HeaderTestInput, <<"=", " ", "T">>, <<"=", "T", NL>>, <<":", "a", ":", NL>>}

\* the attributes and the separators of an attribute list
AttributePool ==
    {<<"a">>, <<"b">>, <<"a", "=", "1">>, <<"a", " ", "=", " ", "2", " ">>, <<"b", "=", "2">>}
SeparatorPool == {<<",">>, <<" ", ",">>, <<",", " ">>, <<" ", ",", " ">>}

RECURSIVE JoinWith(_, _)
JoinWith(ss, sep) ==
    IF Len(ss) = 0 THEN <<>>
    ELSE IF Len(ss) = 1 THEN ss[1]
    ELSE ss[1] \o sep \o JoinWith(Tail(ss), sep)

\* the list of the repository's test, [foobar = foo ,baz , qux]
AttributeListTestInput ==
    <<"[", "f", "o", "o", "b", "a", "r", " ", "=", " ", "f", "o", "o", " ", ",",
      "b", "a", "z", " ", ",", " ", "q", "u", "x", "]">>

\* `[a]`, `[a,b]`, `[a=1,b=2]`, ... and the list of the repository's test
AttributeListInputs ==
    {Concat(<<<<"[">>, JoinWith(ats, sep), <<"]">>, e>>) :
        ats \in UNION {[1..k -> AttributePool] : k \in 1..MaxAttrs},
        sep \in SeparatorPool, e \in {<<>>, <<NL>>}}
    \cup {AttributeListTestInput,
          <<"[", "]">>, <<"[", "a">>, <<"[", " ", "a", "]">>, <<"[", "a", " ", "]">>,
          <<"[", ",", "a", "]">>, <<"[", "a", "=", "]">>, <<"[", "a", "-", "b", ".", "c", "]">>,
          <<"a", "=", "1", NL>>}

\* the block macro of the repository's test, image::foo.png[width=240]
BlockMacroInput ==
    <<"i", "m", "a", "g", "e", ":", ":", "f", "o", "o", ".", "p", "n", "g",
      "[", "w", "i", "d", "t", "h", "=", "2", "4", "0", "]">>

\* blocks: blank lines, an attribute list, a body, the end of its line, callouts
BlockInputs ==
    {Concat(<<bl, al, bo, e, co>>) :
        bl \in {<<>>, <<NL>>, <<" ", NL, NL>>},
        al \in {<<>>, <<"[", "a", "]">>, <<"[", "a", "]", NL>>,
                <<"[", "a", "=", "1", ",", "b", "]", NL>>},
        bo \in {<<"'", "'", "'">>, <<">", ">", ">">>,
                Fence \o <<NL, "x", NL, "y", NL>> \o Fence,
                Fence \o <<NL>> \o Fence, BlockMacroInput, <<"x">>},
        e \in {<<>>, <<NL>>, <<" ", NL>>},
        co \in {<<>>, <<"<", "1", ">", " ", "x", NL>>,
                <<"<", "1", ">", " ", "x", NL, "<", "2", "0", ">", "y", NL>>,
                <<"<", "1", ">", "x">>}}

\* section titles: `=` signs, whitespace, a content, the end of the line
SectionTitleInputs ==
    {Concat(<<[k \in 1..n |-> "="], w, c, e>>) :
        n \in 0..MaxEquals, w \in {<<>>, <<" ">>, <<"\t", " ">>},
        c \in {<<>>, <<"t">>, <<"t", " ", "=">>}, e \in {<<NL>>, <<>>, <<NL, "u">>}}

----------------------------------------------------------------------------
(* The parsers as a state machine: a parser of parser.rs is applied to a   *)
(* span over the input, and parsed keeps what it returned                  *)

ParserInitWith(s) ==
    LET pp == new(<<>>, NoIncludeCb, <<>>)
    IN  /\ source = <<>>
        /\ attribute_map = pp.attribute_map
        /\ include_cb = pp.include_cb
        /\ amalgamated = pp.amalgamated
        /\ include_stack = pp.include_stack
        /\ conditional_stack = pp.conditional_stack
        /\ skipping = pp.skipping
        /\ line = pp.line
        /\ arm = pp.arm
        /\ cb_calls = pp.cb_calls
        /\ result = pp.result
        /\ input = s
        /\ parsed = NotParsed

ParserInit ==
    \/ \E s \in ShortInputs : ParserInitWith(s)
    \/ \E s \in DocAttributeInputs : ParserInitWith(s)
    \/ \E s \in HeaderInputs : ParserInitWith(s)
    \/ \E s \in AttributeListInputs : ParserInitWith(s)
    \/ \E s \in BlockInputs : ParserInitWith(s)
    \/ \E s \in SectionTitleInputs : ParserInitWith(s)

\* the variables of the preprocessor, which no parser touches
preprocessor_vars ==
    <<source, attribute_map, include_cb, amalgamated, include_stack,
      conditional_stack, skipping, line, arm, cb_calls, result>>

ParseDocAttribute ==
    /\ parsed = NotParsed
    /\ parsed' = [parser |-> "parse_doc_attribute", res |-> parse_doc_attribute(input)]
    /\ UNCHANGED <<preprocessor_vars, input>>

ParseDocHeader ==
    /\ parsed = NotParsed
    /\ parsed' = [parser |-> "parse_doc_header", res |-> parse_doc_header(input)]
    /\ UNCHANGED <<preprocessor_vars, input>>

ParseAttribute ==
    /\ parsed = NotParsed
    /\ parsed' = [parser |-> "parse_attribute", res |-> parse_attribute(input)]
    /\ UNCHANGED <<preprocessor_vars, input>>

ParseAttributeList ==
    /\ parsed = NotParsed
    /\ parsed' = [parser |-> "parse_attribute_list", res |-> parse_attribute_list(input)]
    /\ UNCHANGED <<preprocessor_vars, input>>

ParseAttributedBlock ==
    /\ parsed = NotParsed
    /\ parsed' = [parser |-> "parse_attributed_block", res |-> parse_attributed_block(input)]
    /\ UNCHANGED <<preprocessor_vars, input>>

ParseCallouts ==
    /\ parsed = NotParsed
    /\ parsed' = [parser |-> "parse_callouts", res |-> parse_callouts(input)]
    /\ UNCHANGED <<preprocessor_vars, input>>

ParseSectionTitle ==
    /\ parsed = NotParsed
    /\ parsed' = [parser |-> "parse_section_title", res |-> parse_section_title(input)]
    /\ UNCHANGED <<preprocessor_vars, input>>

ParserNext ==
    \/ ParseDocAttribute
    \/ ParseDocHeader
    \/ ParseAttribute
    \/ ParseAttributeList
    \/ ParseAttributedBlock
    \/ ParseCallouts
    \/ ParseSectionTitle

ParserSpec == ParserInit /\ [][ParserNext]_vars

----------------------------------------------------------------------------
(* Notions the parser properties are stated with, written from the text of *)
(* the input and not from the parsers                                      *)

\* the parser p was applied to the input and matched
Accepted(p) == parsed.parser = p /\ parsed.res.ok

\* the parser p was applied to the input and returned an error
Rejected(p) == parsed.parser = p /\ ~parsed.res.ok

\* the first line of the input, without its newline
FirstLine == Take(input, take_till(input, NL))

\* the input after the newline of its first line
AfterFirstLine == Drop(input, take_till(input, NL) + 1)

\* s without the horizontal whitespace it starts with
TrimStart(s) == Drop(s, prefix_len(s, is_horizontal_whitespace))

\* in a first line that starts with a colon: the position of the closing
\* colon, what is written between the two colons, and what follows
ClosingColon ==
    CHOOSE k \in 2..Len(FirstLine) :
        FirstLine[k] = ":" /\ \A j \in 2..(k - 1) : FirstLine[j] # ":"
Written == SubSeq(FirstLine, 2, ClosingColon - 1)
AfterColon == Drop(FirstLine, ClosingColon)

\* w without one `!` at its start and without one `!` at its end
StripMarks(w) ==
    LET a == IF Len(w) > 0 /\ w[1] = "!" THEN Tail(w) ELSE w
    IN  IF Len(a) > 0 /\ Last(a) = "!" THEN Front(a) ELSE a

----------------------------------------------------------------------------
\* C11: when parse_doc_attribute accepts a line, unset is true iff a `!`
\* directly follows the opening colon or directly precedes the closing colon,
\* the id is what is written between the colons without those marks, and
\* the value list is empty when the newline directly follows the closing
\* colon and otherwise holds one span: what follows the whitespace after the
\* colon, up to the newline, trailing spaces included.  In particular
\* ":X:\n", ":!X:\n", ":X!:\n", ":!X!:\n" give id "X", no value and unset =
\* false, true, true, true.
C11_DocAttribute ==
    /\ Accepted("parse_doc_attribute") =>
           LET a == parsed.res.o
           IN  /\ a.unset <=> (Written[1] = "!" \/ Last(Written) = "!")
               /\ a.id = StripMarks(Written)
               /\ a.value = IF AfterColon = <<>> THEN <<>> ELSE <<TrimStart(AfterColon)>>
               /\ parsed.res.i = AfterFirstLine
    /\ parsed.parser = "parse_doc_attribute" =>
           /\ input = <<":", "X", ":", NL>> =>
                  parsed.res = ParseOk(<<>>, [id |-> <<"X">>, unset |-> FALSE, value |-> <<>>])
           /\ input \in {<<":", "!", "X", ":", NL>>, <<":", "X", "!", ":", NL>>,
                         <<":", "!", "X", "!", ":", NL>>} =>
                  parsed.res = ParseOk(<<>>, [id |-> <<"X">>, unset |-> TRUE, value |-> <<>>])

\* parse_doc_attribute accepted a line with a `!` after the opening colon and
\* a value that ends with spaces, as in ":!X: b c  \n"
C11_Witness ==
    /\ Accepted("parse_doc_attribute")
    /\ Written = <<"!", "X">>
    /\ parsed.res.o.unset
    /\ parsed.res.o.value = <<<<"b", " ", "c", " ", " ">>>>

----------------------------------------------------------------------------
\* what is written between the colons, without the `!` after the opening colon
WrittenName == IF Written[1] = "!" THEN Tail(Written) ELSE Written

\* s ends with the character ch
EndsWith(s, ch) == Len(s) > 0 /\ Last(s) = ch

\* C12 as stated: the id of an accepted document attribute never ends with `!`
C12_AsStated ==
    Accepted("parse_doc_attribute") => ~EndsWith(parsed.res.o.id, "!")

\* C12 (amended): exactly one `!` before the closing colon is stripped, so the
\* id of an accepted document attribute ends with `!` iff the name is written
\* with more than one `!` before the closing colon, and then the id is the
\* written name without its last `!`
C12_OneMarkStripped ==
    Accepted("parse_doc_attribute") =>
        /\ EndsWith(parsed.res.o.id, "!") <=>
               (EndsWith(WrittenName, "!") /\ EndsWith(Front(WrittenName), "!"))
        /\ EndsWith(WrittenName, "!") => parsed.res.o.id = Front(WrittenName)

\* parse_doc_attribute accepted ":X!!:" and the id is "X!"
C12_Witness ==
    /\ Accepted("parse_doc_attribute")
    /\ Written = <<"X", "!", "!">>
    /\ parsed.res.o.id = <<"X", "!">>
    /\ parsed.res.o.unset

----------------------------------------------------------------------------
\* the lines of s that end with a newline, in order, without their newlines
TerminatedLines(s) == Front(split(s, NL))

\* l, a line without its newline, has the form of a document attribute: a
\* colon, an optional `!`, a non-empty name without colon, a colon, and then
\* nothing or whitespace followed by anything
IsDocAttributeLine(l) ==
    /\ Len(l) >= 3
    /\ l[1] = ":"
    /\ \E k \in 3..Len(l) :
           /\ l[k] = ":"
           /\ \A j \in 2..(k - 1) : l[j] # ":"
           /\ l[2] = "!" => k > 3
           /\ k = Len(l) \/ is_horizontal_whitespace(l[k + 1])

\* the number of document-attribute lines that ls starts with
AttributeRun(ls) ==
    CHOOSE r \in 0..Len(ls) :
        /\ \A k \in 1..r : IsDocAttributeLine(ls[k])
        /\ r = Len(ls) \/ ~IsDocAttributeLine(ls[r + 1])

\* the input after the first n lines that follow its title line
RECURSIVE DropLines(_, _)
DropLines(s, n) == IF n = 0 THEN s ELSE DropLines(Drop(s, take_till(s, NL) + 1), n - 1)

\* C13: on an input that begins with `= ` and whose title line ends with a
\* newline, parse_doc_header succeeds with title = the rest of the first
\* line, author = None, version = None, and attributes = the document
\* attributes of the maximal run of newline-terminated document-attribute
\* lines directly after the title line, one entry per line in source order;
\* the input from the first other line on is left unconsumed.
C13_DocHeader ==
    (parsed.parser = "parse_doc_header" /\ starts_with(input, <<"=", " ">>)
        /\ \E k \in 1..Len(input) : input[k] = NL) =>
        LET ls == TerminatedLines(AfterFirstLine)
            r == AttributeRun(ls)
        IN  /\ parsed.res.ok
            /\ parsed.res.o.title = Drop(FirstLine, 2)
            /\ parsed.res.o.author = None
            /\ parsed.res.o.version = None
            /\ Len(parsed.res.o.attributes) = r
            /\ \A k \in 1..r :
                   parsed.res.o.attributes[k] = parse_doc_attribute(ls[k] \o <<NL>>).o
            /\ parsed.res.i = DropLines(AfterFirstLine, r)

\* parse_doc_header took two attributes of the same id and stopped at a blank
\* line that a further attribute line follows
C13_Witness ==
    /\ Accepted("parse_doc_header")
    /\ Len(parsed.res.o.attributes) = 2
    /\ parsed.res.o.attributes[1].id = parsed.res.o.attributes[2].id
    /\ parsed.res.o.attributes[1].value # parsed.res.o.attributes[2].value
    /\ parsed.res.i = <<NL, ":", "b", ":", NL>>

----------------------------------------------------------------------------
\* a Block without attributes and without callouts
BareBlock(context) == [context |-> context, attributes |-> <<>>, callouts |-> <<>>]

\* a block body that is a fenced listing: the fence and a newline, a text
\* without fence, the fence
IsFencedListing(s) ==
    /\ Len(s) >= 7
    /\ Take(s, 4) = Fence \o <<NL>>
    /\ Drop(s, Len(s) - 3) = Fence
    /\ \A k \in 5..(Len(s) - 3) : s[k] # GraveAccent

\* C14: parse_attributed_block applied to an input that is exactly `'''`,
\* exactly `>>>` or exactly a fenced listing, with no newline after the block
\* body, succeeds, consumes the input and returns the Block with context
\* ThematicBreak, PageBreak or Listing(the text between the fences), without
\* attributes and without callouts.
C14_BlockWithoutNewline ==
    parsed.parser = "parse_attributed_block" =>
        /\ input = <<"'", "'", "'">> => parsed.res = ParseOk(<<>>, BareBlock(ThematicBreak))
        /\ input = <<">", ">", ">">> => parsed.res = ParseOk(<<>>, BareBlock(PageBreak))
        /\ IsFencedListing(input) =>
               parsed.res = ParseOk(<<>>, BareBlock(Listing(SubSeq(input, 5, Len(input) - 3))))

----------------------------------------------------------------------------
\* Context::BlockMacro(Macro { name, target, attribute_list })
BlockMacro(n, t, al) ==
    [kind |-> "BlockMacro", name |-> n, target |-> t, attribute_list |-> al]

\* C15: parse_attributed_block recognises a block macro as a block body: the
\* input `image::foo.png[width=240]` yields the Block with context
\* BlockMacro{name: "image", target: "foo.png", attribute_list: {"width":
\* "240"}}, without block attributes and without callouts.
C15_BlockMacro ==
    (parsed.parser = "parse_attributed_block" /\ input = BlockMacroInput) =>
        parsed.res =
            ParseOk(<<>>,
                    BareBlock(BlockMacro(<<"i", "m", "a", "g", "e">>,
                                         <<"f", "o", "o", ".", "p", "n", "g">>,
                                         <<"w", "i", "d", "t", "h">> :> Some(<<"2", "4", "0">>))))

----------------------------------------------------------------------------
\* An attribute list read from its text: what stands between `[` and the
\* first `]`, cut at the commas

ListInner(s) == SubSeq(s, 2, take_till(s, "]"))
ListParts(s) == split(ListInner(s), ",")

\* the k-th part without the whitespace after the comma before it
PartBody(ps, k) == IF k = 1 THEN ps[k] ELSE TrimStart(ps[k])

\* the length of the name a part body starts with: an alphanumeric character,
\* then alphanumeric characters, `-` and `.`
NameLen(b) ==
    IF Len(b) = 0 \/ ~is_alphanum(b[1]) THEN 0
    ELSE prefix_len(b, LAMBDA c : is_alphanum(c) \/ c \in {"-", "."})

AttributeName(ps, k) == Take(PartBody(ps, k), NameLen(PartBody(ps, k)))
AfterName(ps, k) == Drop(PartBody(ps, k), NameLen(PartBody(ps, k)))

\* the value of the k-th part: what follows `=` and the whitespace after it,
\* up to the end of the part; None when the part has no `=`
AttributeValue(ps, k) ==
    IF TrimStart(AfterName(ps, k)) = <<>> THEN None
    ELSE Some(TrimStart(Tail(TrimStart(AfterName(ps, k)))))

\* the k-th part is a name, or a name, `=` and a non-empty value, with
\* whitespace allowed around `=` and around the commas
IsAttributePart(ps, k) ==
    /\ NameLen(PartBody(ps, k)) > 0
    /\ LET r == TrimStart(AfterName(ps, k))
       IN  \/ r = <<>> /\ (k < Len(ps) \/ AfterName(ps, k) = <<>>)
           \/ Len(r) > 0 /\ r[1] = "=" /\ TrimStart(Tail(r)) # <<>>

\* s starts with an attribute list `[attr, ..., attr]` on one line
IsAttributeListText(s) ==
    /\ Len(s) >= 3
    /\ s[1] = "["
    /\ \E k \in 1..Len(s) : s[k] = "]"
    /\ \A k \in 1..Len(ListInner(s)) : ListInner(s)[k] # NL
    /\ \A k \in 1..Len(ListParts(s)) : IsAttributePart(ListParts(s), k)

\* C16: parse_attribute_list accepts every list `[attr, ..., attr]` of names
\* and name = value pairs, with horizontal whitespace around `=` and around
\* `,`, consumes it up to its `]`, and returns the map from each name to its
\* value: None for a name without `=`, otherwise what follows `=` and its
\* whitespace up to the next `,` or `]`, trailing spaces kept; for a name that
\* occurs more than once the value of the last occurrence.
C16_AttributeList ==
    /\ (parsed.parser = "parse_attribute_list" /\ input = AttributeListTestInput) =>
           parsed.res = ParseOk(<<>>, <<"f", "o", "o", "b", "a", "r">> :> Some(<<"f", "o", "o", " ">>)
                                      @@ <<"b", "a", "z">> :> None @@ <<"q", "u", "x">> :> None)
    /\ (parsed.parser = "parse_attribute_list" /\ IsAttributeListText(input)) =>
           LET ps == ListParts(input)
               last(nm) == CHOOSE k \in 1..Len(ps) :
                               /\ AttributeName(ps, k) = nm
                               /\ \A j \in (k + 1)..Len(ps) : AttributeName(ps, j) # nm
           IN  /\ parsed.res.ok
               /\ parsed.res.i = Drop(input, take_till(input, "]") + 1)
               /\ DOMAIN parsed.res.o = {AttributeName(ps, k) : k \in 1..Len(ps)}
               /\ \A nm \in DOMAIN parsed.res.o :
                      parsed.res.o[nm] = AttributeValue(ps, last(nm))

\* parse_attribute_list accepted `[a=1 , b , a = 2 ]`: a occurs twice and has
\* the value of its last occurrence with its trailing space, b has no value
C16_Witness ==
    /\ Accepted("parse_attribute_list")
    /\ input = <<"[", "a", "=", "1", " ", ",", " ", "b", " ", ",", " ",
                 "a", " ", "=", " ", "2", " ", "]">>
    /\ parsed.res.o = (<<"a">> :> Some(<<"2", " ">>) @@ <<"b">> :> None)

----------------------------------------------------------------------------
\* block bodies with their contexts, and callout lines with their callouts
BodiesWithContext ==
    {<<<<"'", "'", "'">>, ThematicBreak>>,
     <<<<">", ">", ">">>, PageBreak>>,
     <<Fence \o <<NL, "x", NL, "y", NL>> \o Fence, Listing(<<"x", NL, "y", NL>>)>>}
CalloutLinesWithCallouts ==
    {<<<<>>, <<>>>>,
     <<<<"<", "1", ">", " ", "x", NL>>, <<[number |-> 1, text |-> <<"x">>]>>>>,
     <<<<"<", "1", ">", " ", "x", NL, "<", "2", "0", ">", "y", NL>>,
       <<[number |-> 1, text |-> <<"x">>], [number |-> 20, text |-> <<"y">>]>>>>}

\* C17: an input of the form blank lines, `[a=1,b]`, newline, block body,
\* newline, callout lines is accepted by parse_attributed_block, consumed,
\* and yields the Block of that body whose attributes are those of the list
\* and whose callouts are the callout lines in order.
C17_AttributesThenBlock ==
    parsed.parser = "parse_attributed_block" =>
        \A bl \in {<<>>, <<NL>>, <<" ", NL, NL>>},
           bo \in BodiesWithContext, co \in CalloutLinesWithCallouts :
            input = Concat(<<bl, <<"[", "a", "=", "1", ",", "b", "]", NL>>, bo[1], <<NL>>, co[1]>>) =>
                parsed.res = ParseOk(<<>>, [context |-> bo[2],
                                            attributes |-> <<"a">> :> Some(<<"1">>) @@ <<"b">> :> None,
                                            callouts |-> co[2]])

----------------------------------------------------------------------------
\* the number of `=` characters the input starts with
EqualsCount == prefix_len(input, LAMBDA c : c = "=")

\* C18: parse_section_title accepts a newline-terminated line that starts
\* with 1 to 6 `=` characters and returns level = (number of `=`) - 1, within
\* 0..5, and content = the rest of the line after optional horizontal
\* whitespace; a line that starts with more than 6 `=` characters is a parse
\* error.
C18_SectionTitle ==
    (parsed.parser = "parse_section_title" /\ \E k \in 1..Len(input) : input[k] = NL) =>
        /\ EqualsCount \in 1..6 =>
               /\ parsed.res.ok
               /\ parsed.res.o.level = EqualsCount - 1
               /\ parsed.res.o.level \in 0..5
               /\ parsed.res.o.content = TrimStart(Drop(FirstLine, EqualsCount))
               /\ parsed.res.i = AfterFirstLine
        /\ EqualsCount > 6 => ~parsed.res.ok

----------------------------------------------------------------------------
\* l opens a conditional block that the attributes leave suppressed
OpensSuppressedBlock(l, attributes) ==
    \/ IsIfDefBlock(l) /\ BlockName(l) \notin DOMAIN attributes
    \/ IsIfNotDefBlock(l) /\ BlockName(l) \in DOMAIN attributes

IsIfEvalLine(l) == \E e \in EvalExprs : l = IfEvalLine(e)

\* the position of the endif that closes the directive before position k,
\* open directives (ifeval lines included) being open between them; one more
\* than the number of lines when there is none
RECURSIVE OwnEndIf(_, _, _)
OwnEndIf(ls, k, open) ==
    IF k > Len(ls) THEN k
    ELSE IF IsIfEvalLine(ls[k]) THEN OwnEndIf(ls, k + 1, open + 1)
    ELSE IF ls[k] = EndIfLine(<<>>)
         THEN IF open = 0 THEN k ELSE OwnEndIf(ls, k + 1, open - 1)
    ELSE OwnEndIf(ls, k + 1, open)

\* a suppressed block opened by the first line, then only plain lines that are
\* pairwise different, ifeval lines and endif lines
IsSuppressedEvalSource(ls, attributes) ==
    /\ Len(ls) >= 1
    /\ OpensSuppressedBlock(ls[1], attributes)
    /\ \A k \in 2..Len(ls) :
           \/ Len(ls[k]) = 1 /\ IsPlainLine(ls[k])
           \/ IsIfEvalLine(ls[k])
           \/ ls[k] = EndIfLine(<<>>)
    /\ \A j, k \in 2..Len(ls) : (j # k /\ IsPlainLine(ls[j])) => ls[j] # ls[k]

\* C19: inside a block `ifdef::X[]` whose targets are inactive, or
\* `ifndef::X[]` whose targets are active, an inner ifeval ... endif pair
\* does not end the suppression: no plain line between the outer directive
\* and the outer directive's own endif, the lines after the inner pair's
\* endif included, is in the amalgamated output.
C19_IfEvalInsideSuppressedBlock ==
    (result = Ok /\ IsSuppressedEvalSource(SourceLines(source), attribute_map)) =>
        LET ls == SourceLines(source)
        IN  \A k \in 2..(OwnEndIf(ls, 2, 0) - 1) :
                IsPlainLine(ls[k]) => \A j \in 1..Len(OutputLines) : OutputLines[j] # ls[k]

----------------------------------------------------------------------------
\* the state of the Preprocessor that an iteration of the loop of amalgamate
\* reads and writes (attribute_map and include_cb never change)
LoopState == <<amalgamated, include_stack, conditional_stack, skipping, result>>

\* C20: amalgamate terminates on every finite root source and every callback
\* that maps targets to finite sources, also when sources include themselves.
\* The loop is deterministic in LoopState, so an iteration that leaves
\* LoopState as it found it is repeated for ever; termination therefore
\* requires that every iteration changes LoopState.
C20_EveryIterationChangesState == [][LoopState' # LoopState]_vars

----------------------------------------------------------------------------
\* the positions of the frames of the conditional stack with skipping = true
SkippingFrames == {k \in 1..Len(conditional_stack) : conditional_stack[k].skipping}

\* the line about to be read is an endif directive
AtEndIf == Reading /\ \E t \in {<<>>, AttrA} : CurLine = EndIfLine(t)

\* C21: in every state of amalgamate, for balanced and unbalanced sources,
\* skipping holds iff some frame of the conditional stack has skipping =
\* true, and at most one frame has; the iteration that reads an endif while
\* the conditional stack is empty changes neither the stack nor skipping nor
\* the output; and pushing a source (the Include arm) or popping one leaves
\* the conditional stack and skipping as they are.
C21_SkippingFrames ==
    /\ [](/\ skipping <=> SkippingFrames # {}
          /\ Cardinality(SkippingFrames) <= 1)
    /\ [][(AtEndIf /\ conditional_stack = <<>>) =>
              UNCHANGED <<conditional_stack, skipping, amalgamated, cb_calls, result>>]_vars
    /\ [][Len(include_stack') # Len(include_stack) \/ arm' \in {"Include", "Pop"} =>
              UNCHANGED <<conditional_stack, skipping>>]_vars

\* a source that opened a suppressed block inside an open block has been
\* popped: the stack holds the outer frame and the one skipping frame
C21_Witness ==
    /\ arm = "Pop"
    /\ Len(cb_calls) = 1
    /\ Len(conditional_stack) = 2
    /\ SkippingFrames = {2}
    /\ skipping

====
